---- MODULE Spec2Model ----
(***************************************************************************)
(* SmartPark parking-lot reservation system (src/app.js).                  *)
(*                                                                         *)
(* The state is the three module-level collections of app.js               *)
(* (parkingSlots, arrayList, queue), the localStorage snapshot written by  *)
(* saveState, and the wall clock read by Date.now().  Strings are modelled *)
(* as sequences of one-character strings so that trim, toLowerCase,        *)
(* parseInt and the id concatenation are computed, not assumed.            *)
(*                                                                         *)
(* searchResult is what search last rendered, saveWrites the number of     *)
(* setItem calls that succeeded in the latest saveState, refused the       *)
(* number of saveState calls in which setItem threw, locale the default    *)
(* locale of the runtime, which decides what toLocaleString writes and     *)
(* whether new Date reads it back.  reversedFrom keeps the arrayList the   *)
(* latest handler call started from when that call was traverseReverse.    *)
(***************************************************************************)
EXTENDS Integers, Sequences, FiniteSets, TLC

VARIABLES parkingSlots, arrayList, queue, saved, clock, last,
          searchResult, saveWrites, refused, locale, reversedFrom

vars == <<parkingSlots, arrayList, queue, saved, clock, last,
          searchResult, saveWrites, refused, locale, reversedFrom>>

(***************************************************************************)
(* Bounds of the model.                                                    *)
(***************************************************************************)
\* capacity of the lot; app.js line 44 sets 20, the model scales it down
TOTAL_SLOTS == 2
\* longest wait queue explored
MaxQueue == 2
\* number of milliseconds the clock may advance
MaxTicks == 1
\* number of values Math.floor(Math.random()*999) may take (999 in app.js)
RandRange == 1
\* first value returned by Date.now(); with MsPerSec it puts the first tick
\* on the boundary of a second
ClockStart == 11
\* milliseconds per unit of the resolution of toLocaleString()
MsPerSec == 2

(***************************************************************************)
(* JavaScript values.                                                      *)
(***************************************************************************)
\* the NaN produced by parseInt on a string without leading digits
NaN == -999

\* null, the content of an empty parkingSlots cell
Null == [null |-> TRUE]

\* x - 1 in JavaScript arithmetic (NaN - 1 is NaN)
Minus1(x) == IF x = NaN THEN NaN ELSE x - 1

\* x + 1 in JavaScript arithmetic (NaN + 1 is NaN)
Plus1(x) == IF x = NaN THEN NaN ELSE x + 1

\* a < b in JavaScript (false when either side is NaN)
JsLess(a, b) == a # NaN /\ b # NaN /\ a < b

\* a >= b in JavaScript (false when either side is NaN)
JsGeq(a, b) == a # NaN /\ b # NaN /\ a >= b

\* truthiness of a parkingSlots cell: null and undefined are falsy
Truthy(cell) == cell # Null

(***************************************************************************)
(* Strings.                                                                *)
(***************************************************************************)
Digit == <<"0", "1", "2", "3", "4", "5", "6", "7", "8", "9">>

IsSpace(c) == c = " "

IsDigit(c) == \E d \in 1..10 : Digit[d] = c

DigitVal(c) == (CHOOSE d \in 1..10 : Digit[d] = c) - 1

ToLowerChar(c) ==
    CASE c = "A" -> "a"
      [] c = "B" -> "b"
      [] c = "C" -> "c"
      [] c = "D" -> "d"
      [] c = "X" -> "x"
      [] OTHER -> c

\* String.prototype.toLowerCase
toLowerCase(s) == [i \in 1..Len(s) |-> ToLowerChar(s[i])]

RECURSIVE TrimStart(_)
TrimStart(s) ==
    IF s = <<>> THEN <<>>
    ELSE IF IsSpace(Head(s)) THEN TrimStart(Tail(s)) ELSE s

RECURSIVE TrimEnd(_)
TrimEnd(s) ==
    IF s = <<>> THEN <<>>
    ELSE IF IsSpace(s[Len(s)]) THEN TrimEnd(SubSeq(s, 1, Len(s) - 1)) ELSE s

\* String.prototype.trim
trim(s) == TrimEnd(TrimStart(s))

RECURSIVE DigitsValue(_, _)
\* value of the longest prefix of decimal digits of s, acc digits read so far
DigitsValue(s, acc) ==
    IF s = <<>> \/ ~IsDigit(Head(s)) THEN acc
    ELSE DigitsValue(Tail(s), 10 * acc + DigitVal(Head(s)))

\* parseInt(s, 10): leading white space skipped, optional sign, then the
\* longest prefix of digits; NaN when there is no digit
parseInt(s) ==
    LET t == TrimStart(s)
        neg == t # <<>> /\ Head(t) = "-"
        signed == t # <<>> /\ (Head(t) = "-" \/ Head(t) = "+")
        body == IF signed THEN Tail(t) ELSE t
    IN  IF body = <<>> \/ ~IsDigit(Head(body)) THEN NaN
        ELSE IF neg THEN 0 - DigitsValue(body, 0) ELSE DigitsValue(body, 0)

RECURSIVE NumToString(_)
\* decimal representation of a non-negative integer
NumToString(n) ==
    IF n < 10 THEN <<Digit[n + 1]>>
    ELSE NumToString(n \div 10) \o <<Digit[(n % 10) + 1]>>

(***************************************************************************)
(* Inputs of the handlers.                                                 *)
(***************************************************************************)
auto == <<"a", "u", "t", "o">>

\* values typed into the plate field: a blank one, two spellings of the
\* same plate, plates with leading and trailing white space
PlateInputs ==
    { <<" ">>, <<"a">>, <<" ", "A">>, <<"b", " ">>, <<"c">>, <<"d">> }

\* values of the chosenSlot argument: "auto", the slot numbers 0..N+1
\* written in decimal, and two malformed numbers
SlotInputs ==
    {auto} \cup {NumToString(i) : i \in 0..(TOTAL_SLOTS + 1)}
           \cup { <<"x">>, <<"1", "x">> }

\* values Math.floor(Math.random()*999) may return
RandValues == 0..(RandRange - 1)

\* an id no record carries
AbsentId == <<"i", "d", "0">>

\* indices of the parkingSlots array
SlotIndices == 0..(TOTAL_SLOTS - 1)

(***************************************************************************)
(* Helpers of the handlers.                                                *)
(***************************************************************************)
\* nowString(): toLocaleString() writes the time in the runtime's locale
\* and drops the milliseconds
nowString(now) == [locale |-> locale, sec |-> now \div MsPerSec]

\* new Date(time) as a number: the string en-US writes ("10/13/2026,
\* 10:30:00 PM") is read back to the second; the string en-GB writes on a
\* day after the 12th ("13/10/2026, 22:30:00") is read month first and is
\* an Invalid Date, NaN
dateValue(time) == IF time.locale = "en-US" THEN time.sec ELSE NaN

\* 'id' + Date.now() + Math.floor(Math.random()*999)
newId(now, r) == <<"i", "d">> \o NumToString(now) \o NumToString(r)

\* findPlate comparing the plates as written, without toLowerCase
findPlate_caseSensitive(list, plate) ==
    \E i \in 1..Len(list) : list[i].plate = plate

\* list.find(r => r.plate.toLowerCase() === plate.toLowerCase()) is defined
findPlate(list, plate) ==
    \E i \in 1..Len(list) : toLowerCase(list[i].plate) = toLowerCase(plate)

\* the duplicate check without its second operand, the search of the queue
IsDuplicate_noQueue(plate) == findPlate(arrayList, plate)

\* the duplicate check of insertReservation
IsDuplicate(plate) == findPlate(arrayList, plate) \/ findPlate(queue, plate)

\* the capacity test with > written for >=
LotFull_offByOne == Len(arrayList) > TOTAL_SLOTS

\* arrayList.length >= TOTAL_SLOTS
LotFull == Len(arrayList) >= TOTAL_SLOTS

\* the scan with findLastIndex written for findIndex
findIndexNull_last(slots) ==
    IF \E i \in SlotIndices : slots[i] = Null
    THEN CHOOSE i \in SlotIndices :
            /\ slots[i] = Null
            /\ \A j \in SlotIndices : slots[j] = Null => i >= j
    ELSE -1

\* the scan with s === undefined written for s === null: no cell passes
findIndexNull_undefined(slots) == -1

\* parkingSlots.findIndex(s => s === null): lowest index, or -1
findIndexNull(slots) ==
    IF \E i \in SlotIndices : slots[i] = Null
    THEN CHOOSE i \in SlotIndices :
            /\ slots[i] = Null
            /\ \A j \in SlotIndices : slots[j] = Null => i <= j
    ELSE -1

\* arrayList.findIndex(r => r.id === id): lowest 0-based index, or -1
findIndexById(list, id) ==
    IF \E i \in 1..Len(list) : list[i].id = id
    THEN (CHOOSE i \in 1..Len(list) :
            /\ list[i].id = id
            /\ \A j \in 1..Len(list) : list[j].id = id => i <= j) - 1
    ELSE -1

\* list.splice(idx, 1) with a 0-based idx
splice(list, idx) ==
    SubSeq(list, 1, idx) \o SubSeq(list, idx + 2, Len(list))

\* queue.unshift(e) written for queue.push(e)
push_front(q, e) == <<e>> \o q

\* queue.push(e)
push(q, e) == Append(q, e)

\* the element queue.pop() returns, written for queue.shift()
shiftHead_pop(q) == q[Len(q)]

\* the element queue.shift() returns
shiftHead(q) == Head(q)

\* the queue left when the head is read as queue[0], written for
\* queue.shift()
shiftRest_peek(q) == q

\* the queue queue.pop() leaves, written for queue.shift()
shiftRest_pop(q) == SubSeq(q, 1, Len(q) - 1)

\* the queue queue.shift() leaves
shiftRest(q) == Tail(q)

\* JSON.stringify of a number: NaN is written as null
JsonNumber(n) == IF n = NaN THEN Null ELSE [num |-> n]

\* JSON.stringify(parkingSlots): only the array indices are written
JsonSlots(slots) == [i \in SlotIndices |-> slots[i]]

\* JSON.stringify(arrayList)
JsonList(list) ==
    [i \in 1..Len(list) |->
        [plate |-> list[i].plate, slot |-> JsonNumber(list[i].slot),
         time |-> list[i].time, id |-> list[i].id]]

\* the item localStorage holds under a key after setItem(key, json); a key
\* never written holds Null
Item(json) == [json |-> json]

\* saveState(): three setItem calls inside one try; ok is the number of
\* calls that succeed before setItem throws (3: none throws)
saveState(slots, list, q, ok) ==
    [slots |-> IF ok >= 1 THEN Item(JsonSlots(slots)) ELSE saved.slots,
     arraylist |-> IF ok >= 2 THEN Item(JsonList(list)) ELSE saved.arraylist,
     queue |-> IF ok >= 3 THEN Item(q) ELSE saved.queue]

\* the number of setItem calls of saveState
SaveCalls == 3

\* how many saveState calls localStorage may refuse in one run
MaxRefused == 1

(***************************************************************************)
(* insertReservation(plate, chosenSlot)                                    *)
(***************************************************************************)
\* a result of a handler: the three collections it leaves, what it reported
\* (out) and whether it called saveState
Result(slots, list, q, out, save) ==
    [slots |-> slots, list |-> list, queue |-> q, out |-> out, save |-> save]

\* !plate || plate.trim() === ''
PlateMissing(plate) == plate = <<>> \/ trim(plate) = <<>>

\* si < 0 || si >= TOTAL_SLOTS, both false for NaN
SlotOutOfRange(si) == JsLess(si, 0) \/ JsGeq(si, TOTAL_SLOTS)

\* the slot index insertReservation resolves for a lot that is not full:
\* an index, -1 (auto found none), "invalid" or "occupied" as rejections
ResolveSlot(chosenSlot) ==
    IF chosenSlot = auto
    THEN [rejected |-> "no", slotIndex |-> findIndexNull(parkingSlots)]
    ELSE LET si == Minus1(parseInt(chosenSlot))
         IN  IF SlotOutOfRange(si)
             THEN [rejected |-> "invalid", slotIndex |-> -1]
             ELSE IF Truthy(parkingSlots[si])
                  THEN [rejected |-> "occupied", slotIndex |-> -1]
                  ELSE [rejected |-> "no", slotIndex |-> si]

\* the whole of insertReservation, reading Date.now() = now and the random
\* suffix r
InsertStep(rawPlate, chosenSlot, now, r) ==
    IF PlateMissing(rawPlate)
    THEN Result(parkingSlots, arrayList, queue, "missing", FALSE)
    ELSE
    LET plate == trim(rawPlate)
        time == nowString(now)
        id == newId(now, r)
        pending == [plate |-> plate, time |-> time, id |-> id]
    IN  IF IsDuplicate(plate)
        THEN Result(parkingSlots, arrayList, queue, "duplicate", FALSE)
        ELSE IF LotFull
        THEN Result(parkingSlots, arrayList, push(queue, pending),
                    "queued", TRUE)
        ELSE
        LET rs == ResolveSlot(chosenSlot)
            slotIndex == rs.slotIndex
            reservation == [plate |-> plate, slot |-> Plus1(slotIndex),
                            time |-> time, id |-> id]
        IN  IF rs.rejected # "no"
            THEN Result(parkingSlots, arrayList, queue, rs.rejected, FALSE)
            ELSE IF slotIndex = -1
            THEN Result(parkingSlots, arrayList, push(queue, pending),
                        "fallback", TRUE)
            ELSE Result([parkingSlots EXCEPT ![slotIndex] = pending],
                        Append(arrayList, reservation), queue,
                        "reserved", TRUE)

(***************************************************************************)
(* deleteReservation(id)                                                   *)
(***************************************************************************)
DeleteStep(id, now, r) ==
    LET idx == findIndexById(arrayList, id)
    IN  IF idx = -1
        THEN Result(parkingSlots, arrayList, queue, "absent", FALSE)
        ELSE
        LET slotNum == arrayList[idx + 1].slot
            cell == Minus1(slotNum)
            list1 == splice(arrayList, idx)
            slots1 == [parkingSlots EXCEPT ![cell] = Null]
        IN  IF Len(queue) > 0
            THEN LET next == shiftHead(queue)
                     time == nowString(now)
                     nid == newId(now, r)
                 IN  Result([slots1 EXCEPT ![cell] =
                                [plate |-> next.plate, time |-> time,
                                 id |-> nid]],
                            Append(list1,
                                [plate |-> next.plate, slot |-> slotNum,
                                 time |-> time, id |-> nid]),
                            shiftRest(queue), "promoted", TRUE)
            ELSE Result(slots1, list1, queue, "freed", TRUE)

(***************************************************************************)
(* sortBySlot, sortByTime, traverseReverse                                 *)
(***************************************************************************)
\* the number a comparator a.key - b.key hands to Array.prototype.sort,
\* which reads a NaN result as 0
compare(x, y) == IF x = NaN \/ y = NaN THEN 0 ELSE x - y

\* the keys of sortBySlot's comparator, (a,b) => a.slot - b.slot
slotKeys(list) == [i \in 1..Len(list) |-> list[i].slot]

\* the keys of sortByTime's comparator, (a,b) => new Date(a.time) -
\* new Date(b.time)
timeKeys(list) == [i \in 1..Len(list) |-> dateValue(list[i].time)]

\* the permutations of 1..n
Perms(n) ==
    {f \in [1..n -> 1..n] : \A i, j \in 1..n : f[i] = f[j] => i = j}

\* the rearrangements of a list
Rearrangements(list) ==
    {[i \in 1..Len(list) |-> list[f[i]]] : f \in Perms(Len(list))}

\* the comparator is consistent in the sense of Array.prototype.sort on
\* these keys: equality and order under it are transitive
Consistent(keys) ==
    \A i, j, k \in 1..Len(keys) :
        /\ (compare(keys[i], keys[j]) = 0 /\ compare(keys[j], keys[k]) = 0)
              => compare(keys[i], keys[k]) = 0
        /\ (compare(keys[i], keys[j]) < 0 /\ compare(keys[j], keys[k]) < 0)
              => compare(keys[i], keys[k]) < 0
        /\ (compare(keys[i], keys[j]) > 0 /\ compare(keys[j], keys[k]) > 0)
              => compare(keys[i], keys[k]) > 0

\* the stable ascending order of a list under a consistent comparator
StableSort(list, keys) ==
    LET n == Len(list)
        p == CHOOSE f \in Perms(n) :
                \A i, j \in 1..n : i < j =>
                    \/ compare(keys[f[i]], keys[f[j]]) < 0
                    \/ compare(keys[f[i]], keys[f[j]]) = 0 /\ f[i] < f[j]
    IN  [i \in 1..n |-> list[p[i]]]

\* the lists Array.prototype.sort may leave: the stable order, or, for an
\* inconsistent comparator, an implementation-defined rearrangement
SortOutcomes(list, keys) ==
    IF Consistent(keys) THEN {StableSort(list, keys)}
    ELSE Rearrangements(list)

\* a reversal loop that stops one element short
reverse_short(list) == [i \in 1..(Len(list) - 1) |-> list[Len(list) - i]]

\* the reversal taken of a copy, [...arrayList].reverse(): the list stays
reverse_copy(list) == list

\* Array.prototype.reverse
reverse(list) == [i \in 1..Len(list) |-> list[Len(list) + 1 - i]]

(***************************************************************************)
(* search(term)                                                            *)
(***************************************************************************)
\* String(r.slot)
String(n) == IF n = NaN THEN <<"N", "a", "N">> ELSE NumToString(n)

\* the test with === written for includes
includes_equal(s, t) == s = t

\* String.prototype.includes
includes(s, t) ==
    \E k \in 0..(Len(s) - Len(t)) : SubSeq(s, k + 1, k + Len(t)) = t

\* the test of the linear search on one record
matches(r, term) ==
    \/ includes(toLowerCase(r.plate), toLowerCase(term))
    \/ String(r.slot) = term

\* the row rendered for one result: slot badge, plate and time
row(r) == [slot |-> String(r.slot), plate |-> r.plate, time |-> r.time]

\* results.map(...) of the records of list that pass the test, in order
rows(list, term) ==
    LET results == SelectSeq(list, LAMBDA r : matches(r, term))
    IN  [i \in 1..Len(results) |-> row(results[i])]

\* what search renders into searchResult: nothing, or the count line for
\* the term followed by one row per result
Rendered(term, shown) == [term |-> term, rows |-> shown]

\* what search leaves in searchResult
SearchStep(rawTerm, list) ==
    LET term == trim(rawTerm)
    IN  IF term = <<>> THEN Rendered(<<>>, <<>>)
        ELSE IF Len(list) = 0 THEN Rendered(term, <<>>)
        ELSE Rendered(term, rows(list, term))

(***************************************************************************)
(* updateCounters(), called by every render: the counts shown are those of *)
(* the collections as the handler left them.                               *)
(***************************************************************************)
\* const reserved = arrayList.length
reserved == Len(arrayList)

\* const queued = queue.length
queued == Len(queue)

\* const available = TOTAL_SLOTS - reserved
available == TOTAL_SLOTS - reserved

(***************************************************************************)
(* The state machine.                                                      *)
(***************************************************************************)
\* what the last handler call was: its name, its arguments (chosenSlot once
\* the handler has read it) and what it reported
Call(op, plate, slot, id, out) ==
    [op |-> op, plate |-> plate, slot |-> slot, id |-> id, out |-> out]

\* ids a delete button or a caller may pass
DeleteIds ==
    {arrayList[i].id : i \in 1..Len(arrayList)}
        \cup {queue[i].id : i \in 1..Len(queue)} \cup {AbsentId}

\* the collections after construction, with an empty localStorage, in a
\* runtime whose default locale is loc
Construction(loc) ==
    /\ parkingSlots = [i \in SlotIndices \cup {NaN} |-> Null]
    /\ arrayList = <<>>
    /\ queue = <<>>
    /\ saved = [slots |-> Null, arraylist |-> Null, queue |-> Null]
    /\ clock = ClockStart
    /\ last = Call("none", <<>>, <<>>, <<>>, "none")
    /\ searchResult = Rendered(<<>>, <<>>)
    /\ saveWrites = 0
    /\ refused = 0
    /\ reversedFrom = <<>>
    /\ locale = loc

Init == Construction("en-US")

\* the clock advances by a millisecond between two reads of Date.now()
Tick ==
    /\ clock < ClockStart + MaxTicks
    /\ clock' = clock + 1
    /\ UNCHANGED <<parkingSlots, arrayList, queue, saved, last,
                   searchResult, saveWrites, refused, locale, reversedFrom>>

\* the handler with saveState() called before its mutation
Install_saveFirst(res, ok) ==
    /\ parkingSlots' = res.slots
    /\ arrayList' = res.list
    /\ queue' = res.queue
    /\ saved' = IF res.save
                THEN saveState(parkingSlots, arrayList, queue, ok)
                ELSE saved
    /\ saveWrites' = IF res.save THEN ok ELSE saveWrites
    /\ (res.save /\ ok < SaveCalls) => refused < MaxRefused
    /\ refused' = IF res.save /\ ok < SaveCalls THEN refused + 1 ELSE refused
    /\ reversedFrom' = IF res.out = "reversed" THEN arrayList ELSE <<>>
    /\ UNCHANGED <<clock, searchResult, locale>>

\* install the result of a handler
Install(res, ok) ==
    /\ parkingSlots' = res.slots
    /\ arrayList' = res.list
    /\ queue' = res.queue
    /\ saved' = IF res.save
                THEN saveState(res.slots, res.list, res.queue, ok)
                ELSE saved
    /\ saveWrites' = IF res.save THEN ok ELSE saveWrites
    /\ (res.save /\ ok < SaveCalls) => refused < MaxRefused
    /\ refused' = IF res.save /\ ok < SaveCalls THEN refused + 1 ELSE refused
    /\ reversedFrom' = IF res.out = "reversed" THEN arrayList ELSE <<>>
    /\ UNCHANGED <<clock, searchResult, locale>>

insertReservation(plate, chosenSlot, r, ok) ==
    LET res == InsertStep(plate, chosenSlot, clock, r)
    IN  /\ Len(res.queue) <= MaxQueue
        /\ Install(res, ok)
        /\ last' = Call("insert", plate,
                         IF res.out \in {"missing", "duplicate", "queued"}
                         THEN <<>> ELSE chosenSlot,
                         <<>>, res.out)

deleteReservation(id, r, ok) ==
    LET res == DeleteStep(id, clock, r)
    IN  /\ Install(res, ok)
        /\ last' = Call("delete", <<>>, <<>>, id, res.out)

sortBySlot(ok) ==
    /\ \E sorted \in SortOutcomes(arrayList, slotKeys(arrayList)) :
          Install(Result(parkingSlots, sorted, queue, "sorted", TRUE), ok)
    /\ last' = Call("sortBySlot", <<>>, <<>>, <<>>, "sorted")

sortByTime(ok) ==
    /\ \E sorted \in SortOutcomes(arrayList, timeKeys(arrayList)) :
          Install(Result(parkingSlots, sorted, queue, "sorted", TRUE), ok)
    /\ last' = Call("sortByTime", <<>>, <<>>, <<>>, "sorted")

traverseReverse(ok) ==
    /\ Install(Result(parkingSlots, reverse(arrayList), queue,
                      "reversed", TRUE), ok)
    /\ last' = Call("traverseReverse", <<>>, <<>>, <<>>, "reversed")

\* search reads arrayList and writes searchResult; last keeps the term in
\* the place of the text argument
search(term) ==
    /\ searchResult' = SearchStep(term, arrayList)
    /\ last' = Call("search", term, <<>>, <<>>, "rendered")
    /\ UNCHANGED <<parkingSlots, arrayList, queue, saved, clock,
                   saveWrites, refused, locale, reversedFrom>>

\* Spec follows the runs in which localStorage accepts every write; no
\* handler reads the snapshot back
Next ==
    \/ Tick
    \/ \E plate \in PlateInputs, chosenSlot \in SlotInputs, r \in RandValues :
            insertReservation(plate, chosenSlot, r, SaveCalls)
    \/ \E id \in DeleteIds, r \in RandValues : deleteReservation(id, r, SaveCalls)
    \/ sortBySlot(SaveCalls)
    \/ sortByTime(SaveCalls)
    \/ traverseReverse(SaveCalls)

Spec == Init /\ [][Next]_vars

\* the same handlers in a runtime whose locale writes the day first
InitGB == Construction("en-GB")

SpecGB == InitGB /\ [][Next]_vars

\* plates, slots and terms typed while searching: a plate of two letters, so
\* that a term can be a proper part of it
SearchPlates == { <<"a">>, <<"A", "b">>, <<"c">>, <<"d">> }

SearchSlots == {auto, <<"x">>}

SearchTerms ==
    { <<" ">>, <<"a", " ">>, <<"B">>, <<"1">>, <<"N", "a", "N">> }

\* the handlers together with the search box
NextSearch ==
    \/ \E plate \in SearchPlates, chosenSlot \in SearchSlots, r \in RandValues :
            insertReservation(plate, chosenSlot, r, SaveCalls)
    \/ \E id \in DeleteIds, r \in RandValues : deleteReservation(id, r, SaveCalls)
    \/ sortBySlot(SaveCalls)
    \/ sortByTime(SaveCalls)
    \/ traverseReverse(SaveCalls)
    \/ \E term \in SearchTerms : search(term)

SpecSearch == Init /\ [][NextSearch]_vars

\* the handlers that change a collection, on the plates and slots of the
\* search runs: four plates, so that two requests can be pending at once
NextTurn ==
    \/ \E plate \in SearchPlates, chosenSlot \in SearchSlots, r \in RandValues :
            insertReservation(plate, chosenSlot, r, SaveCalls)
    \/ \E id \in DeleteIds, r \in RandValues : deleteReservation(id, r, SaveCalls)
    \/ sortBySlot(SaveCalls)
    \/ sortByTime(SaveCalls)
    \/ traverseReverse(SaveCalls)

\* no fairness is stated: the handlers run when the user clicks, and
\* nothing in the code makes a click happen
SpecTurn == Init /\ [][NextTurn]_vars

\* plates and slots typed while localStorage may refuse a write
QuotaPlates == { <<"a">>, <<"c">>, <<"d">> }

QuotaSlots == {auto, <<"x">>}

\* the handlers when setItem may throw at any of the three calls
NextQuota ==
    \/ \E plate \in QuotaPlates, chosenSlot \in QuotaSlots, r \in RandValues,
          ok \in 0..SaveCalls :
            insertReservation(plate, chosenSlot, r, ok)
    \/ \E id \in DeleteIds, r \in RandValues, ok \in 0..SaveCalls :
            deleteReservation(id, r, ok)
    \/ \E ok \in 0..SaveCalls : sortBySlot(ok)
    \/ \E ok \in 0..SaveCalls : sortByTime(ok)
    \/ \E ok \in 0..SaveCalls : traverseReverse(ok)

SpecQuota == Init /\ [][NextQuota]_vars

(***************************************************************************)
(* Vocabulary of the properties.  These definitions state the claims in    *)
(* their own terms and use none of the handlers' helpers.                  *)
(***************************************************************************)
Collections == <<parkingSlots, arrayList, queue>>

\* the step is a call of the handler op (Tick leaves last alone and moves
\* the clock)
Called(op) == last'.op = op /\ clock' = clock

\* the sequence of the plates of a list of records
Plates(list) == [i \in 1..Len(list) |-> list[i].plate]

\* the sequence of the ids of a list of records
Ids(list) == [i \in 1..Len(list) |-> list[i].id]

\* s without its leading and trailing blanks
Stripped(s) ==
    IF \A i \in 1..Len(s) : s[i] = " " THEN <<>>
    ELSE LET first == CHOOSE i \in 1..Len(s) :
                        s[i] # " " /\ \A j \in 1..(i - 1) : s[j] = " "
             lastc == CHOOSE i \in 1..Len(s) :
                        s[i] # " " /\ \A j \in (i + 1)..Len(s) : s[j] = " "
         IN  SubSeq(s, first, lastc)

\* s and t are the same plate up to the case of their letters
SamePlate(s, t) ==
    /\ Len(s) = Len(t)
    /\ \A i \in 1..Len(s) :
          \/ s[i] = t[i]
          \/ <<s[i], t[i]>> \in { <<"a", "A">>, <<"A", "a">>, <<"b", "B">>,
                                 <<"B", "b">>, <<"c", "C">>, <<"C", "c">>,
                                 <<"d", "D">>, <<"D", "d">> }

\* the plate typed is, once trimmed, the plate of a reservation or of a
\* pending request
AlreadyPresent(raw) ==
    \E p \in {arrayList[i].plate : i \in 1..Len(arrayList)}
             \cup {queue[i].plate : i \in 1..Len(queue)} :
        SamePlate(Stripped(raw), p)

\* list without its k-th element
WithoutAt(list, k) == [i \in 1..(Len(list) - 1) |->
                          IF i < k THEN list[i] ELSE list[i + 1]]

\* the record a cell holds for a reservation
CellOf(res) == [plate |-> res.plate, time |-> res.time, id |-> res.id]

(***************************************************************************)
(* C1: the occupied cells of parkingSlots and the entries of arrayList are *)
(* in bijection: cell i is occupied iff exactly one arrayList entry has    *)
(* slot = i+1, that entry carries the cell's plate, time and id, and every *)
(* entry of arrayList is the entry of a cell.                              *)
(***************************************************************************)
C1_Bijection ==
    /\ \A i \in SlotIndices :
          LET here == {k \in 1..Len(arrayList) : arrayList[k].slot = i + 1}
          IN  /\ Truthy(parkingSlots[i]) <=> Cardinality(here) = 1
              /\ \A k \in here : parkingSlots[i] = CellOf(arrayList[k])
    /\ \A k \in 1..Len(arrayList) : arrayList[k].slot \in 1..TOTAL_SLOTS

(***************************************************************************)
(* C2: no parkingSlots cell is empty while the wait queue is non-empty.    *)
(***************************************************************************)
C2_NoFreeCellWhileQueued ==
    queue # <<>> => \A i \in SlotIndices : parkingSlots[i] # Null

(***************************************************************************)
(* C3: a deleteReservation that removes a reservation while the queue is   *)
(* non-empty promotes the head of the queue, and no other request, and     *)
(* leaves the rest of the queue in order; with an empty queue it promotes  *)
(* nothing and the queue stays empty.                                      *)
(***************************************************************************)
C3_HeadPromoted ==
    [][(Called("delete") /\ last'.out # "absent") =>
          IF queue # <<>>
          THEN /\ queue' = Tail(queue)
               /\ Len(arrayList') = Len(arrayList)
               /\ arrayList'[Len(arrayList')].plate = Head(queue).plate
               /\ \E k \in 1..Len(arrayList) :
                     SubSeq(arrayList', 1, Len(arrayList) - 1)
                        = WithoutAt(arrayList, k)
          ELSE /\ queue' = <<>>
               /\ \E k \in 1..Len(arrayList) :
                     arrayList' = WithoutAt(arrayList, k)]_vars

\* a delete has just promoted the head of a queue of MaxQueue requests
C3_Witness ==
    /\ last.op = "delete" /\ last.out = "promoted"
    /\ MaxQueue >= 2 /\ Len(queue) = MaxQueue - 1
    /\ arrayList[Len(arrayList)].id # last.id

(***************************************************************************)
(* C4: insertReservation with a plate that, trimmed and up to case, is the *)
(* plate of an arrayList entry or of a queue entry is rejected and leaves  *)
(* parkingSlots, arrayList and queue unchanged.                            *)
(***************************************************************************)
C4_DuplicateRejected ==
    [][(Called("insert") /\ AlreadyPresent(last'.plate)) =>
          (last'.out = "duplicate" /\ UNCHANGED Collections)]_vars

\* " A" has just been refused on a full lot whose queue holds "a"
C4_Witness ==
    /\ last.op = "insert" /\ last.out = "duplicate"
    /\ last.plate = <<" ", "A">>
    /\ Len(arrayList) = TOTAL_SLOTS
    /\ \E i \in 1..Len(queue) : queue[i].plate = <<"a">>

(***************************************************************************)
(* C5: no plate, compared up to case, occurs twice in arrayList, twice in  *)
(* queue, or in both.                                                      *)
(***************************************************************************)
C5_PlatesUnique ==
    LET all == Plates(arrayList) \o Plates(queue)
    IN  \A i, j \in 1..Len(all) : SamePlate(all[i], all[j]) => i = j

\* a promotion has just moved a plate from the queue into a full lot that
\* still has a request waiting
C5_Witness ==
    /\ last.op = "delete" /\ last.out = "promoted"
    /\ Len(arrayList) = TOTAL_SLOTS /\ Len(queue) >= 1
    /\ \E i \in 1..Len(arrayList) : arrayList[i].plate = <<"A">>

(***************************************************************************)
(* C6: on a lot that is not full, insertReservation of a valid new plate   *)
(* with an explicit chosenSlot that is not a well-formed slot number, is   *)
(* outside 1..N, or names an occupied cell changes none of parkingSlots,   *)
(* arrayList and queue.                                                    *)
(***************************************************************************)
\* s is written as a decimal number: digits only, at least one
WellFormedNumber(s) ==
    s # <<>> /\ \A i \in 1..Len(s) : s[i] \in {Digit[d] : d \in 1..10}

\* the slot numbers 1..N a string denotes (one, or none)
SlotsDenoted(s) == {n \in 1..TOTAL_SLOTS : NumToString(n) = s}

\* an explicit chosenSlot the handler has to refuse
UnusableSlot(s) ==
    /\ s # auto
    /\ \/ ~WellFormedNumber(s)
       \/ SlotsDenoted(s) = {}
       \/ \E n \in SlotsDenoted(s) : parkingSlots[n - 1] # Null

C6_BadSlotRejected ==
    [][(/\ Called("insert")
        /\ last'.out \notin {"missing", "duplicate", "queued"}
        /\ Len(arrayList) < TOTAL_SLOTS
        /\ UnusableSlot(last'.slot)) => UNCHANGED Collections]_vars

(***************************************************************************)
(* C7: arrayList never holds more than TOTAL_SLOTS entries.                *)
(***************************************************************************)
C7_AtMostCapacity == Len(arrayList) <= TOTAL_SLOTS

\* an insert has just been queued by a lot that holds N reservations
C7_Witness ==
    /\ last.op = "insert" /\ last.out = "queued"
    /\ Len(arrayList) = TOTAL_SLOTS
    /\ queue # <<>>

(***************************************************************************)
(* C8: the ids of the live records, the entries of arrayList and of queue, *)
(* are pairwise distinct.                                                  *)
(***************************************************************************)
C8_IdsDistinct ==
    LET all == Ids(arrayList) \o Ids(queue)
    IN  \A i, j \in 1..Len(all) : all[i] = all[j] => i = j

(***************************************************************************)
(* C9: a deleteReservation that promotes the queue head puts the new       *)
(* reservation at the slot number of the deleted one, changes no other     *)
(* cell, gives it the promoted request's plate and an id different from    *)
(* the deleted reservation's, and keeps the number of reservations.        *)
(***************************************************************************)
C9_PromotionInPlace ==
    [][(Called("delete") /\ last'.out = "promoted") =>
          \E k \in 1..Len(arrayList) :
              LET old == arrayList[k]
                  new == arrayList'[Len(arrayList')]
              IN  /\ old.id = last'.id
                  /\ Len(arrayList') = Len(arrayList)
                  /\ new.slot = old.slot
                  /\ new.plate = Head(queue).plate
                  /\ new.id # old.id
                  /\ \A i \in SlotIndices :
                        parkingSlots'[i] = IF i + 1 = old.slot
                                           THEN CellOf(new)
                                           ELSE parkingSlots[i]]_vars

(***************************************************************************)
(* C10: on a lot that holds N reservations, insertReservation of a plate   *)
(* that is not blank and not already present appends one pending request,  *)
(* for the trimmed plate, at the tail of the queue and leaves parkingSlots *)
(* and arrayList unchanged.                                                *)
(***************************************************************************)
C10_FullLotEnqueues ==
    [][(/\ Called("insert")
        /\ Len(arrayList) = TOTAL_SLOTS
        /\ Stripped(last'.plate) # <<>>
        /\ ~AlreadyPresent(last'.plate)) =>
          (/\ Len(queue') = Len(queue) + 1
           /\ SubSeq(queue', 1, Len(queue)) = queue
           /\ queue'[Len(queue')].plate = Stripped(last'.plate)
           /\ UNCHANGED <<parkingSlots, arrayList>>)]_vars

\* "b " has just joined, as "b", the tail of a queue that held a request
C10_Witness ==
    /\ last.op = "insert" /\ last.out = "queued"
    /\ last.plate = <<"b", " ">>
    /\ Len(queue) >= 2
    /\ queue[Len(queue)].plate = <<"b">>
    /\ parkingSlots[NaN] = Null

(***************************************************************************)
(* C11: insertReservation with chosenSlot "auto", for a plate that is not  *)
(* blank and not already present, on a lot that holds fewer than N         *)
(* reservations, reserves the lowest-indexed empty cell: the new           *)
(* reservation's slot is min{i+1 : parkingSlots[i] is empty}, that cell    *)
(* takes the reservation and no other cell changes.                        *)
(***************************************************************************)
C11_AutoLowestFree ==
    [][(/\ Called("insert")
        /\ last'.slot = auto
        /\ Len(arrayList) < TOTAL_SLOTS
        /\ Stripped(last'.plate) # <<>>
        /\ ~AlreadyPresent(last'.plate)) =>
          (/\ last'.out = "reserved"
           /\ Len(arrayList') = Len(arrayList) + 1
           /\ \E i \in SlotIndices :
                 /\ parkingSlots[i] = Null
                 /\ \A j \in SlotIndices : j < i => parkingSlots[j] # Null
                 /\ arrayList'[Len(arrayList')].slot = i + 1
                 /\ parkingSlots'[i] = CellOf(arrayList'[Len(arrayList')])
                 /\ \A j \in (DOMAIN parkingSlots) \ {i} :
                       parkingSlots'[j] = parkingSlots[j])]_vars

\* an "auto" insert has just taken slot 1 while slot 2 was held, so that
\* the cell taken was the only empty one and the lowest
C11_Witness ==
    /\ last.op = "insert" /\ last.slot = auto /\ last.out = "reserved"
    /\ Len(arrayList) = 2
    /\ arrayList[1].slot = 2
    /\ arrayList[2].slot = 1

(***************************************************************************)
(* C12: deleteReservation with an id that no arrayList entry carries       *)
(* leaves parkingSlots, arrayList and queue unchanged, whatever the queue  *)
(* holds; and once deleteReservation(id) has run no arrayList entry        *)
(* carries id, so that deleting the same id again changes nothing.         *)
(***************************************************************************)
C12_AbsentIdNoOp ==
    [][Called("delete") =>
          (/\ (\A k \in 1..Len(arrayList) : arrayList[k].id # last'.id)
                  => UNCHANGED Collections
           /\ \A k \in 1..Len(arrayList') : arrayList'[k].id # last'.id)]_vars

(***************************************************************************)
(* C13: the queue changes only by one request joining at its tail, in an   *)
(* insertReservation, or by its head leaving, in a deleteReservation, so   *)
(* two pending requests keep their relative order while both are queued;   *)
(* sortBySlot, sortByTime, traverseReverse and search leave it as it is.   *)
(***************************************************************************)
C13_QueueFifo ==
    [][/\ \/ queue' = queue
          \/ /\ Called("insert")
             /\ Len(queue') = Len(queue) + 1
             /\ \A i \in 1..Len(queue) : queue'[i] = queue[i]
          \/ /\ Called("delete")
             /\ Len(queue') = Len(queue) - 1
             /\ \A i \in 1..Len(queue') : queue'[i] = queue[i + 1]
       /\ (\/ Called("sortBySlot") \/ Called("sortByTime")
           \/ Called("traverseReverse") \/ Called("search"))
              => queue' = queue]_vars

\* the head of a queue of two has just been promoted: the request behind
\* it, which joined later, is now the only one pending
C13_Witness ==
    /\ last.op = "delete" /\ last.out = "promoted"
    /\ Len(queue) = 1
    /\ arrayList[Len(arrayList)].plate # queue[1].plate
    /\ searchResult.term # <<>>

\* b is a rearrangement of a: the same records, each as often
IsRearrangement(a, b) ==
    /\ Len(a) = Len(b)
    /\ \E f \in [1..Len(a) -> 1..Len(a)] :
          /\ \A i, j \in 1..Len(a) : f[i] = f[j] => i = j
          /\ \A i \in 1..Len(a) : b[i] = a[f[i]]

(***************************************************************************)
(* C14: sortBySlot, sortByTime and traverseReverse leave parkingSlots and  *)
(* queue unchanged and leave arrayList a rearrangement of what it was, the *)
(* same reservation records before and after; if the cells and the         *)
(* entries were in bijection before the call they are after it.            *)
(***************************************************************************)
C14_SortsOnlyPermute ==
    [][(\/ Called("sortBySlot") \/ Called("sortByTime")
        \/ Called("traverseReverse")) =>
          (/\ UNCHANGED <<parkingSlots, queue>>
           /\ IsRearrangement(arrayList, arrayList')
           /\ C1_Bijection => C1_Bijection')]_vars

\* a sort has just run on two reservations while a request was pending,
\* and the reservation made later stands first
C14_Witness ==
    /\ last.op = "sortBySlot"
    /\ Len(arrayList) = 2 /\ Len(queue) >= 1
    /\ arrayList[1].slot = 1 /\ arrayList[2].slot = 2
    /\ arrayList[1].time.sec > arrayList[2].time.sec

\* a <= b as numbers; NaN is in no order with anything
NumLeq(a, b) == a # NaN /\ b # NaN /\ a <= b

(***************************************************************************)
(* C15: after sortBySlot the slots of arrayList, read in order, are        *)
(* non-decreasing, whatever arrayList held; and a sortBySlot that follows  *)
(* a sortBySlot leaves the order as it is.                                 *)
(***************************************************************************)
C15_SortedBySlot ==
    [][Called("sortBySlot") =>
          (/\ \A i, j \in 1..Len(arrayList') :
                 i < j => NumLeq(arrayList'[i].slot, arrayList'[j].slot)
           /\ last.op = "sortBySlot" => arrayList' = arrayList)]_vars

\* the place of the record r in list
PlaceOf(list, r) == CHOOSE k \in 1..Len(list) : list[k] = r

(***************************************************************************)
(* C16: after sortByTime the reservations stand in ascending order of the  *)
(* time they were made, as their timestamps give it to the second, and     *)
(* two reservations with equal timestamps stand in the order they had      *)
(* before the call.                                                        *)
(***************************************************************************)
C16_ChronologicalStable ==
    [][Called("sortByTime") =>
          (/\ \A i, j \in 1..Len(arrayList') :
                 i < j => arrayList'[i].time.sec <= arrayList'[j].time.sec
           /\ \A i, j \in 1..Len(arrayList) :
                 (i < j /\ arrayList[i].time = arrayList[j].time) =>
                    PlaceOf(arrayList', arrayList[i])
                       < PlaceOf(arrayList', arrayList[j]))]_vars

(***************************************************************************)
(* C17: one traverseReverse leaves exactly the reversed sequence, the      *)
(* entry at place i is the entry that stood at place length+1-i; and a     *)
(* traverseReverse that follows a traverseReverse leaves arrayList as it   *)
(* was before the first of the two.                                        *)
(***************************************************************************)
C17_ReverseInvolution ==
    [][Called("traverseReverse") =>
          (/\ Len(arrayList') = Len(arrayList)
           /\ \A i \in 1..Len(arrayList) :
                 arrayList'[i] = arrayList[Len(arrayList) + 1 - i]
           /\ last.op = "traverseReverse" => arrayList' = reversedFrom)]_vars

\* two reservations stand in the order of their making after the second of
\* two traverseReverse calls in a row
C17_Witness ==
    /\ last.op = "traverseReverse"
    /\ Len(reversedFrom) = 2 /\ Len(arrayList) = 2
    /\ reversedFrom[1] = arrayList[2] /\ reversedFrom[2] = arrayList[1]
    /\ arrayList[1].time.sec < arrayList[2].time.sec
    /\ arrayList[1].slot = 2

\* the plate s contains t, up to the case of the letters
ContainsPlate(s, t) ==
    \E k \in 0..(Len(s) - Len(t)) : SamePlate(SubSeq(s, k + 1, k + Len(t)), t)

\* a slot written as a string
SlotText(n) == IF n = NaN THEN <<"N", "a", "N">> ELSE NumToString(n)

\* the places of arrayList whose record answers the term t
Hits(t) ==
    {k \in 1..Len(arrayList) :
        \/ ContainsPlate(arrayList[k].plate, t)
        \/ SlotText(arrayList[k].slot) = t}

\* what a result shows of a record
Shown(r) == [slot |-> SlotText(r.slot), plate |-> r.plate, time |-> r.time]

(***************************************************************************)
(* C18: search(term) changes none of parkingSlots, arrayList and queue; a  *)
(* term that is empty once trimmed gives the empty result; any other term  *)
(* gives exactly the records of arrayList whose plate contains the trimmed *)
(* term, case aside, or whose slot written as a string equals it, in the   *)
(* order they have in arrayList.                                           *)
(***************************************************************************)
C18_SearchSubsequence ==
    [][Called("search") =>
          LET t == Stripped(last'.plate)
              found == searchResult'.rows
          IN  /\ UNCHANGED Collections
              /\ t = <<>> => found = <<>>
              /\ t # <<>> =>
                    /\ Len(found) = Cardinality(Hits(t))
                    /\ \A k \in Hits(t) :
                          found[Cardinality({h \in Hits(t) : h <= k})]
                             = Shown(arrayList[k])]_vars

\* the term "a " has just found two reservations, "Ab" in slot 2 before "a"
\* in slot 1, as arrayList holds them
C18_Witness ==
    /\ last.op = "search" /\ last.plate = <<"a", " ">>
    /\ Len(searchResult.rows) = 2
    /\ searchResult.rows[1].plate = <<"A", "b">>
    /\ searchResult.rows[1].slot = <<"2">>
    /\ searchResult.rows[2].slot = <<"1">>
    /\ Len(queue) >= 1

\* the step is a handler call that reports a change of the collections,
\* the calls that save
Saving ==
    /\ clock' = clock
    /\ last'.out \in {"reserved", "queued", "fallback", "freed", "promoted",
                      "sorted", "reversed"}

\* the snapshot holds the collections: the cells, the reservations with
\* their slot numbers, the pending requests
SnapshotIs(slots, list, q) ==
    /\ saved.slots = [json |-> [i \in SlotIndices |-> slots[i]]]
    /\ saved.arraylist = [json |->
          [i \in 1..Len(list) |->
              [plate |-> list[i].plate, slot |-> [num |-> list[i].slot],
               time |-> list[i].time, id |-> list[i].id]]]
    /\ saved.queue = [json |-> q]

\* the snapshot holds what JSON keeps of the collections: the cells at the
\* indices 0..N-1, the reservations with a slot that is not a number
\* written as null, the pending requests
SnapshotIsJsonOf(slots, list, q) ==
    /\ saved.slots = [json |-> [i \in SlotIndices |-> slots[i]]]
    /\ saved.arraylist = [json |->
          [i \in 1..Len(list) |->
              [plate |-> list[i].plate,
               slot |-> IF list[i].slot = NaN THEN Null
                        ELSE [num |-> list[i].slot],
               time |-> list[i].time, id |-> list[i].id]]]
    /\ saved.queue = [json |-> q]

\* the step keeps the change its handler reports
KeepsMutation ==
    /\ last'.out = "reserved" => Len(arrayList') = Len(arrayList) + 1
    /\ last'.out \in {"queued", "fallback"} => Len(queue') = Len(queue) + 1
    /\ last'.out = "freed" => Len(arrayList') = Len(arrayList) - 1
    /\ last'.out = "promoted" => Len(queue') = Len(queue) - 1
    /\ last'.out \in {"sorted", "reversed"} =>
          IsRearrangement(arrayList, arrayList')

(***************************************************************************)
(* C19 as stated: every insertReservation, deleteReservation, sortBySlot,  *)
(* sortByTime and traverseReverse that changes a collection saves after    *)
(* the change, so that after the call the saved snapshot equals the        *)
(* current parkingSlots, arrayList and queue; and the collections keep the *)
(* change whether the save succeeds or fails.                              *)
(***************************************************************************)
C19_SnapshotCurrent ==
    [][Saving =>
          (/\ SnapshotIs(parkingSlots, arrayList, queue)'
           /\ KeepsMutation)]_vars

(***************************************************************************)
(* C19, amended: the snapshot is written after the change, so whenever the *)
(* three writes of the latest save succeeded it holds what JSON keeps of   *)
(* the current parkingSlots, arrayList and queue, a slot that is not a     *)
(* number as null; after a save that failed nothing is said of the         *)
(* snapshot, and the collections keep the change either way.               *)
(***************************************************************************)
C19_SavedAfterMutation ==
    [][/\ saveWrites' = SaveCalls =>
             SnapshotIsJsonOf(parkingSlots, arrayList, queue)'
       /\ Saving => KeepsMutation]_vars

\* a request has just been queued and the third write of its save failed:
\* the snapshot holds the two reservations and still the empty queue
C19_Witness ==
    /\ last.op = "insert" /\ last.out = "queued"
    /\ saveWrites = 2
    /\ Len(queue) = 1 /\ saved.queue = [json |-> <<>>]
    /\ saved.arraylist # Null /\ Len(saved.arraylist.json) = 2

(***************************************************************************)
(* C20: no insertReservation takes the fallback branch, the one that       *)
(* enqueues because the slot lookup gave -1 on a lot that holds fewer than *)
(* N reservations: such a lot always has an empty cell for the lookup to   *)
(* find.                                                                   *)
(***************************************************************************)
C20_FallbackUnreachable ==
    /\ last.out # "fallback"
    /\ Len(arrayList) < TOTAL_SLOTS =>
          \E i \in SlotIndices : parkingSlots[i] = Null

\* an "auto" insert has just found a cell on a lot where a reservation
\* without a slot number takes a place in arrayList and no cell
C20_Witness ==
    /\ last.op = "insert" /\ last.slot = auto /\ last.out = "reserved"
    /\ Len(arrayList) = TOTAL_SLOTS
    /\ \E k \in 1..Len(arrayList) : arrayList[k].slot = NaN
    /\ \E i \in SlotIndices : parkingSlots[i] = Null

(***************************************************************************)
(* C22: in every reachable state the available count shown, N minus the    *)
(* length of arrayList, is the number of empty cells of parkingSlots, and  *)
(* available + reserved = N.                                               *)
(***************************************************************************)
C22_AvailableIsEmptyCells ==
    /\ available = Cardinality({i \in SlotIndices : parkingSlots[i] = Null})
    /\ available + reserved = TOTAL_SLOTS

\* the plate p is that of a pending request
Pending(p) == \E i \in 1..Len(queue) : queue[i].plate = p

\* the plate p is that of a reservation and of no pending request
Promoted(p) ==
    /\ \E k \in 1..Len(arrayList) : arrayList[k].plate = p
    /\ ~Pending(p)

\* the step is a deleteReservation call that finds its target id
EffectiveDelete ==
    /\ Called("delete")
    /\ \E k \in 1..Len(arrayList) : arrayList[k].id = last'.id

\* the plates a request can carry
RequestPlates == {Stripped(p) : p \in SearchPlates}

\* the step moves the pending requests as their turn has it: a delete that
\* finds its target promotes the head and moves the others one place
\* ahead, any other step leaves each request at its place
InTurn ==
    /\ EffectiveDelete =>
          (/\ Len(queue') = IF queue = <<>> THEN 0 ELSE Len(queue) - 1
           /\ \A i \in 1..Len(queue') : queue'[i] = queue[i + 1]
           /\ (queue # <<>> =>
                 arrayList'[Len(arrayList')].plate = queue[1].plate))
    /\ ~EffectiveDelete =>
          (\A i \in 1..Len(queue) :
              i <= Len(queue') /\ queue'[i] = queue[i])

(***************************************************************************)
(* C21: a pending request leaves the queue only in a deleteReservation     *)
(* that finds its target id, and then as the head, promoted to the         *)
(* reservation appended to arrayList; every such delete on a non-empty     *)
(* queue promotes the head and moves each other request one place ahead,   *)
(* and no other step moves a request, so the request with k requests ahead *)
(* of it is promoted by the (k+1)-th such delete; hence, if such deletes   *)
(* keep occurring, every pending request is eventually promoted.           *)
(***************************************************************************)
C21_PromotedInTurn ==
    /\ [][InTurn]_vars
    /\ ([]<><<EffectiveDelete>>_vars =>
          \A p \in RequestPlates : Pending(p) ~> Promoted(p))

\* the second of two pending requests has just been promoted, by the second
\* delete since it joined: the request that was ahead of it holds a
\* reservation made earlier
C21_Witness ==
    /\ last.op = "delete" /\ last.out = "promoted"
    /\ queue = <<>>
    /\ Len(arrayList) = 2
    /\ arrayList[2].plate = <<"d">>
    /\ arrayList[1].plate = <<"c">>
    /\ reversedFrom = <<>>

====
